---- MODULE Spec2Model ----
(***************************************************************************)
(* Real-time session orchestration of FACTO-NODE-BE: the signaling gateway *)
(* (modules/calls/presentation/gateways/SignalingGateway.ts) and the chat  *)
(* gateway (modules/chat/presentation/gateways/ChatGateway.ts).            *)
(*                                                                         *)
(* Every handler runs on the single Node.js event loop: the code between   *)
(* two awaits is one atomic step.  An async handler is therefore modelled  *)
(* as one action for its synchronous prefix and one action per await that  *)
(* resolves (or rejects); the handler's position is the pc of its run.     *)
(***************************************************************************)
EXTENDS Integers, Sequences, FiniteSets, TLC

VARIABLES
    now,                  \* Date.now(), in ms since the gateway was built
    sockets,              \* socket id -> "new" | "open" | "closed"
    rooms,                \* socket.io rooms: set of <<socket id, session id>>
    sessions,             \* SignalingGateway.sessions (a Map, insertion-ordered)
    aiPeers,              \* SignalingGateway.aiPeers: session id -> peer instance
    openPeers,            \* AICallPeer instances created and not yet closed
    peerSeq,              \* number of AICallPeer instances constructed so far
    greetingSent,         \* SignalingGateway.greetingSent (a Set)
    processingAudio,      \* SignalingGateway.processingAudio: session id -> boolean
    conversationHistory,  \* SignalingGateway.conversationHistory: session id -> array
    arrays,               \* the heap of history arrays: array id -> sequence of turns
    sessionLastActivity,  \* SignalingGateway.sessionLastActivity: session id -> ms
    runs,                 \* handleUserAudio invocations suspended at an await
    offers,               \* handleOffer invocations suspended at aiPeer.handleOffer
    greetings,            \* greeting callbacks: timer pending or awaiting synthesis
    chatSockets,          \* sockets of the /chat namespace: "new" | "open" | "closed"
    chatRooms,            \* rooms of the /chat namespace
    chatSessions,         \* ChatGateway.sessions
    chatHistory,          \* ChatGateway.conversationHistory: session id -> array
    chatArrays,           \* the heap of the chat gateway's history arrays
    chatLastActivity,     \* ChatGateway.sessionLastActivity
    chatRuns,             \* handleSendMessage / handleJoinChat invocations at an await
    chatStore,            \* session ids of the rows of table chat_sessions
    calls,                \* Call entities, in order of creation: caller, status, saved
    lastEventAt,          \* per session id: time of the last inbound event naming it
    leftTurns,            \* per session id: the turns its window held at a leave-session
    orphaned,             \* ids of the greetings whose session was torn down before they were due
    scheduled,            \* per session id: greetings scheduled for the session since it was created
    nEvents,              \* inbound client events so far
    nTicks,               \* clock steps so far
    last,                 \* the step just taken: handler, session, run
    out                   \* the events that step emitted and the peers it closed

sigVars == <<sessions, aiPeers, openPeers, peerSeq, greetingSent, processingAudio,
             conversationHistory, arrays, sessionLastActivity, runs, offers,
             greetings, rooms>>

chatVars == <<chatSockets, chatRooms, chatSessions, chatHistory, chatArrays,
              chatLastActivity, chatRuns, chatStore>>

callVars == <<calls>>

vars == <<now, sockets, sigVars, chatVars, callVars, lastEventAt, leftTurns, orphaned,
          scheduled, nEvents, nTicks, last, out>>

----------------------------------------------------------------------------
(* Bounds of the model *)

MaxEvents == 4          \* client events of Spec
MaxChatEvents == 3      \* client events of SpecChat
MaxTicks == 1           \* clock steps
MaxGuardEvents == 3     \* client events of SpecGuard
MaxWindowEvents == 13   \* client events of SpecWindow
MaxRejoinEvents == 6    \* client events of SpecRejoin
MaxCalls == 2           \* Call entities created
MaxOfferEvents == 4     \* client events of SpecOffers
MaxBindEvents == 4      \* client events of SpecBind

Sessions == {"s1", "s2"}
Callers == {"n1", "n2"}
Sockets == {"k1", "k2"}
PeerIds == {"peerA"}
CallIds == {"none", "c1"}
None == "none"

----------------------------------------------------------------------------
(* Program constants *)

SESSION_TIMEOUT_MS == 30 * 60 * 1000
MIN_AUDIO_BYTES == 20000
MAX_HISTORY == 20
MIN_TRANSCRIPT_CHARS == 3
GREETING_DELAY_MS == 2000

\* Clock steps the model takes: the timeout itself, and one ms more
Delays == {SESSION_TIMEOUT_MS, SESSION_TIMEOUT_MS + 1}

\* base64 payload lengths (characters, unpadded) of the audio the clients send
AudioChars == {26666, 26667}

----------------------------------------------------------------------------
(* JavaScript Map and Array primitives *)

\* Map.set / Map.delete / Map.get on a map whose iteration order is not observed
MapSet(m, k, v) == [x \in (DOMAIN m) \cup {k} |-> IF x = k THEN v ELSE m[x]]
MapDelete(m, k) == [x \in (DOMAIN m) \ {k} |-> m[x]]
MapHas(m, k) == k \in DOMAIN m
EmptyMap == [x \in {} |-> None]

\* The sessions Map keeps insertion order: a sequence of entries, one per key.
\* Map.set on a present key keeps the key's place.
OMapKeys(m) == {m[i].key : i \in 1..Len(m)}
OMapIndex(m, k) == CHOOSE i \in 1..Len(m) : m[i].key = k
OMapGet(m, k) == m[OMapIndex(m, k)].val
OMapSet(m, k, v) ==
    IF k \in OMapKeys(m)
    THEN [m EXCEPT ![OMapIndex(m, k)] = [key |-> k, val |-> v]]
    ELSE Append(m, [key |-> k, val |-> v])
OMapDelete(m, k) == SelectSeq(m, LAMBDA e : e.key # k)

RECURSIVE SetToSeq(_)
SetToSeq(S) == IF S = {} THEN <<>> ELSE LET x == CHOOSE y \in S : TRUE IN <<x>> \o SetToSeq(S \ {x})

\* Array.prototype.splice(0, n): removes the first n elements in place
SpliceFront(a, n) == SubSeq(a, n + 1, Len(a))

\* Buffer.from(audioData, 'base64').length for an unpadded base64 text of n chars
DecodedLength(n) == (n * 3) \div 4

----------------------------------------------------------------------------
(* Transcripts and the validity filter of handleUserAudio *)

\* A transcript is a sequence of characters.  What the Whisper call may return:
\* nothing, blanks, a two-letter word, a three-letter word, fillers, a stop
\* word, a broadcaster's name inside a sentence, and usable speech (with a
\* leading blank to trim).
Transcripts ==
    { <<>>,
      <<" ", " ">>,
      <<"o", "k">>,
      <<"y", "e", "s", " ">>,
      <<"U", "m", "m">>,
      <<"s", "t", "o", "p">>,
      <<"o", "n", " ", "k", "b", "s">>,
      <<" ", "h", "e", "l", "l", "o">> }

IsSpace(c) == c = " "

\* String.prototype.trim
RECURSIVE TrimLeft(_)
TrimLeft(t) == IF t # <<>> /\ IsSpace(Head(t)) THEN TrimLeft(Tail(t)) ELSE t
RECURSIVE TrimRight(_)
TrimRight(t) ==
    IF t # <<>> /\ IsSpace(t[Len(t)]) THEN TrimRight(SubSeq(t, 1, Len(t) - 1)) ELSE t
Trim(t) == TrimRight(TrimLeft(t))

\* the regular expressions carry the i flag
Lower(c) ==
    CASE c = "U" -> "u"
      [] c = "H" -> "h"
      [] c = "S" -> "s"
      [] OTHER -> c
ToLower(t) == [i \in 1..Len(t) |-> Lower(t[i])]

StartsWith(t, w) == Len(t) >= Len(w) /\ SubSeq(t, 1, Len(w)) = w
Contains(t, w) == \E i \in 1..(Len(t) - Len(w) + 1) : SubSeq(t, i, i + Len(w) - 1) = w
\* x.*y
ContainsThen(t, x, y) ==
    \E i \in 1..(Len(t) - Len(x) + 1) :
        /\ SubSeq(t, i, i + Len(x) - 1) = x
        /\ Contains(SubSeq(t, i + Len(x), Len(t)), y)
\* ^pc+$ : the prefix p, then one or more c, and nothing else
PrefixThenRepeat(t, p, c) ==
    /\ Len(t) > Len(p)
    /\ StartsWith(t, p)
    /\ \A i \in (Len(p) + 1)..Len(t) : t[i] = c

\* noisePatterns.some(pattern => pattern.test(text)), for the patterns written in
\* Latin letters; the Hangul patterns match no transcript of this alphabet.
MatchesNoise(text) ==
    LET t == ToLower(text) IN
    \/ PrefixThenRepeat(t, <<"u">>, "h")
    \/ PrefixThenRepeat(t, <<"u">>, "m")
    \/ PrefixThenRepeat(t, <<"a">>, "h")
    \/ PrefixThenRepeat(t, <<"h", "m">>, "m")
    \/ t \in {<<"e", "n", "d">>, <<"s", "t", "o", "p">>}
    \/ Contains(t, <<"m", "b", "c">>) \/ Contains(t, <<"s", "b", "s">>)
    \/ Contains(t, <<"k", "b", "s">>) \/ Contains(t, <<"j", "t", "b", "c">>)
    \/ ContainsThen(t, <<"s","u","b","s","c","r","i","b","e">>, <<"l","i","k","e">>)
    \/ ContainsThen(t, <<"p","r","o","m","o","t","i","n","g">>, <<"v","i","d","e","o">>)

\* the checks without the noise list
ClassifyByLength(userMessage) ==
    IF Len(Trim(userMessage)) = 0 THEN "empty"
    ELSE IF Len(Trim(userMessage)) < MIN_TRANSCRIPT_CHARS THEN "short"
    ELSE "usable"

\* The verdict of the three checks of handleUserAudio on a transcript
Classify(userMessage) ==
    IF Len(Trim(userMessage)) = 0 THEN "empty"
    ELSE IF Len(Trim(userMessage)) < MIN_TRANSCRIPT_CHARS THEN "short"
    ELSE IF MatchesNoise(Trim(userMessage)) THEN "noise"
    ELSE "usable"

----------------------------------------------------------------------------
(* History arrays.  conversationHistory holds references: a handler that read *)
(* `conversationHistory.get(sessionId) || []` keeps the array it was given,   *)
(* also after the Map entry is deleted or replaced.                           *)

Turn(role, id) == [role |-> role, turn |-> id]

\* the push without the cut
PushTurnUncut(a, id) == Append(Append(a, Turn("user", id)), Turn("assistant", id))

\* the cut one entry too deep: splice(0, length - 19)
PushTurnCutOdd(a, id) ==
    LET b == Append(Append(a, Turn("user", id)), Turn("assistant", id)) IN
    IF Len(b) > MAX_HISTORY THEN SpliceFront(b, Len(b) - MAX_HISTORY + 1) ELSE b

\* history.push(user); history.push(assistant); if (length > 20) splice(0, length - 20)
PushTurn(a, id) ==
    LET b == Append(Append(a, Turn("user", id)), Turn("assistant", id)) IN
    IF Len(b) > MAX_HISTORY THEN SpliceFront(b, Len(b) - MAX_HISTORY) ELSE b

\* pushing a turn onto a takes the `if (history.length > 20)` branch
Overflows(a) == Len(a) + 2 > MAX_HISTORY

\* a reader that never finds a stored history
HasHistoryNever(map, s) == FALSE

\* `conversationHistory.get(sessionId) || []` finds a stored array
HasHistory(map, s) == MapHas(map, s)

\* the id given to `[]`: the lowest one not in use
FreshArray(heap) == CHOOSE i \in 1..(Cardinality(DOMAIN heap) + 1) : i \notin DOMAIN heap

\* arrays no Map entry and no suspended handler refers to are garbage
Collect(heap, map, rs) ==
    LET live == {map[s] : s \in DOMAIN map} \cup {r.hist : r \in rs} IN
    [i \in (DOMAIN heap) \cap live |-> heap[i]]

\* the ids of the turns recorded in a window
TurnsOf(w) == {w[i].turn : i \in 1..Len(w)}

\* the conversation window of session s, as the next reader would see it
Window(s) == IF MapHas(conversationHistory, s) THEN arrays[conversationHistory[s]] ELSE <<>>
ChatWindow(s) == IF MapHas(chatHistory, s) THEN chatArrays[chatHistory[s]] ELSE <<>>

----------------------------------------------------------------------------
(* Initial state: both gateways constructed, no client connected *)

NoStep == [op |-> "init", sid |-> None, run |-> 0, note |-> None, why |-> None, text |-> <<>>]

Init ==
    /\ now = 0
    /\ sockets = [k \in Sockets |-> "new"]
    /\ rooms = {}
    /\ sessions = <<>>
    /\ aiPeers = EmptyMap
    /\ openPeers = {}
    /\ peerSeq = 0
    /\ greetingSent = {}
    /\ processingAudio = EmptyMap
    /\ conversationHistory = EmptyMap
    /\ arrays = EmptyMap
    /\ sessionLastActivity = EmptyMap
    /\ runs = {}
    /\ offers = {}
    /\ greetings = {}
    /\ chatSockets = [k \in Sockets |-> "new"]
    /\ chatRooms = {}
    /\ chatSessions = EmptyMap
    /\ chatHistory = EmptyMap
    /\ chatArrays = EmptyMap
    /\ chatLastActivity = EmptyMap
    /\ chatRuns = {}
    /\ chatStore = {}
    /\ calls = <<>>
    /\ lastEventAt = EmptyMap
    /\ leftTurns = [s \in Sessions |-> {}]
    /\ orphaned = {}
    /\ scheduled = [s \in Sessions |-> 0]
    /\ nEvents = 0
    /\ nTicks = 0
    /\ last = NoStep
    /\ out = <<>>

----------------------------------------------------------------------------
(* Bookkeeping shared by the actions *)

\* an emitted event: to a room, to one socket, or to a room but for the sender
ToRoom(s) == <<"room", s>>
ToSocket(k) == <<"socket", k>>
ToOthers(s, k) == <<"others", s, k>>
Ev(name, target, what) == [ev |-> name, to |-> target, what |-> what]
\* aiPeer.close(), recorded with the events of the step
ClosePeer(s, peer) == [ev |-> "close", to |-> <<"peer", s>>, what |-> ToString(peer)]

\* the step just taken: the handler, its session, its run and how it went; for
\* a feedback, also the check that asked for it; for a transcription, the text
Step(op, s, id, note) ==
    [op |-> op, sid |-> s, run |-> id, note |-> note, why |-> None, text |-> <<>>]

\* an inbound client event naming session s
Inbound(s) ==
    /\ nEvents' = nEvents + 1
    /\ lastEventAt' = MapSet(lastEventAt, s, now)
    /\ UNCHANGED <<leftTurns, orphaned, scheduled>>

\* an inbound client event that creates session s if it is not registered
InboundCreating(s) ==
    /\ nEvents' = nEvents + 1
    /\ lastEventAt' = MapSet(lastEventAt, s, now)
    /\ scheduled' = IF s \in OMapKeys(sessions) THEN scheduled ELSE [scheduled EXCEPT ![s] = 0]
    /\ UNCHANGED <<leftTurns, orphaned>>

Internal == UNCHANGED <<nEvents, lastEventAt, leftTurns, orphaned, scheduled>>

\* the greetings of the sessions ss whose timer is pending and not yet due
Pending(ss) == {g.id : g \in {x \in greetings : x.sid \in ss /\ x.pc = "timer" /\ now < x.due}}

\* updateSessionActivity
UpdateSessionActivity(m, s) == MapSet(m, s, now)

\* the processing latch of s is held
Latched(s) == MapHas(processingAudio, s) /\ processingAudio[s]

RunsOf(s) == {r \in runs : r.sid = s}

----------------------------------------------------------------------------
(* SignalingGateway: connection, join-session, leave-session, disconnect *)

\* handleConnection
Connect(k) ==
    /\ sockets[k] = "new"
    /\ sockets' = [sockets EXCEPT ![k] = "open"]
    /\ nEvents' = nEvents + 1
    /\ last' = Step("connect", None, 0, k)
    /\ out' = <<>>
    /\ UNCHANGED <<now, sigVars, chatVars, lastEventAt, leftTurns, orphaned, scheduled, nTicks,
                   callVars>>

\* handleJoinSession
JoinSession(k, s, p, c) ==
    /\ sockets[k] = "open"
    /\ rooms' = rooms \cup {<<k, s>>}
    /\ sessions' = OMapSet(sessions, s, [socketId |-> k, peerId |-> p, callId |-> c])
    /\ sessionLastActivity' = UpdateSessionActivity(sessionLastActivity, s)
    /\ out' = << Ev("peer-joined", ToOthers(s, k), p), Ev("joined-session", ToSocket(k), s) >>
    /\ last' = Step("join-session", s, 0, k)
    /\ InboundCreating(s)
    /\ UNCHANGED <<now, sockets, aiPeers, openPeers, peerSeq, greetingSent, processingAudio,
                   conversationHistory, arrays, runs, offers, greetings, chatVars, nTicks,
                   callVars>>

\* handleLeaveSession
LeaveSession(k, s, p) ==
    /\ sockets[k] = "open"
    /\ rooms' = rooms \ {<<k, s>>}
    /\ sessions' = OMapDelete(sessions, s)
    /\ greetingSent' = greetingSent \ {s}
    /\ processingAudio' = MapDelete(processingAudio, s)
    /\ conversationHistory' = MapDelete(conversationHistory, s)
    /\ arrays' = Collect(arrays, conversationHistory', runs)
    /\ out' = << Ev("peer-left", ToOthers(s, k), p), Ev("left-session", ToSocket(k), s) >>
    /\ last' = Step("leave-session", s, 0, k)
    /\ nEvents' = nEvents + 1
    /\ lastEventAt' = MapSet(lastEventAt, s, now)
    /\ leftTurns' = [leftTurns EXCEPT ![s] = @ \cup TurnsOf(Window(s))]
    /\ orphaned' = orphaned \cup Pending({s})
    /\ UNCHANGED scheduled
    /\ UNCHANGED <<now, sockets, aiPeers, openPeers, peerSeq, sessionLastActivity,
                   runs, offers, greetings, chatVars, nTicks,
                   callVars>>

\* the first entry of the sessions Map, in iteration order, bound to socket k
FirstSessionOf(k) ==
    LET hits == {i \in 1..Len(sessions) : sessions[i].val.socketId = k} IN
    IF hits = {} THEN 0 ELSE CHOOSE i \in hits : \A j \in hits : i <= j

\* handleDisconnect; socket.io has taken the socket out of its rooms
Disconnect(k) ==
    /\ sockets[k] = "open"
    /\ sockets' = [sockets EXCEPT ![k] = "closed"]
    /\ rooms' = {m \in rooms : m[1] # k}
    /\ nEvents' = nEvents + 1
    /\ LET i == FirstSessionOf(k) IN
       IF i = 0
       THEN /\ UNCHANGED <<sessions, aiPeers, openPeers, greetingSent, processingAudio,
                           conversationHistory, arrays, lastEventAt, orphaned>>
            /\ out' = <<>>
            /\ last' = Step("disconnect", None, 0, k)
       ELSE LET s == sessions[i].key IN
            /\ sessions' = OMapDelete(sessions, s)
            /\ aiPeers' = MapDelete(aiPeers, s)
            /\ openPeers' = IF MapHas(aiPeers, s) THEN openPeers \ {aiPeers[s]} ELSE openPeers
            /\ greetingSent' = greetingSent \ {s}
            /\ processingAudio' = MapDelete(processingAudio, s)
            /\ conversationHistory' = MapDelete(conversationHistory, s)
            /\ arrays' = Collect(arrays, conversationHistory', runs)
            /\ out' = (IF MapHas(aiPeers, s) THEN << ClosePeer(s, aiPeers[s]) >>
                                              ELSE <<>>)
                      \o << Ev("peer-disconnected", ToRoom(s), sessions[i].val.peerId) >>
            /\ last' = Step("disconnect", s, 0, k)
            /\ orphaned' = orphaned \cup Pending({s})
            /\ UNCHANGED lastEventAt
    /\ UNCHANGED <<now, peerSeq, sessionLastActivity, runs, offers, greetings, chatVars,
                   leftTurns, scheduled, nTicks,
                   callVars>>

----------------------------------------------------------------------------
(* SignalingGateway.handleUserAudio *)

\* An invocation of handleUserAudio suspended at an await: where it is (pc), the
\* array it read as history (hist), and the check that sent it to
\* sendFeedbackResponse (why).
AudioRun(id, s, k, pc, bytes, hist, why) ==
    [id |-> id, sid |-> s, client |-> k, pc |-> pc, bytes |-> bytes, hist |-> hist,
     why |-> why]

\* one utterance for every rejection
UtteranceSame(why) == "didnt-hear"

\* The message handed to sendFeedbackResponse: "잘 들리지 않았어요" after the size
\* and the length check, "말씀을 잘 못 알아들었어요" after the empty and the noise check.
Utterance(why) == IF why \in {"small", "short"} THEN "didnt-hear" ELSE "didnt-understand"

\* a guard that lets every event through
GuardNeverDrops(s) == FALSE

\* `if (this.processingAudio.get(sessionId)) return`
GuardDrops(s) == Latched(s)

\* `if (audioBuffer.length < 20000)`
BelowSizeFloor(bytes) == bytes < MIN_AUDIO_BYTES

\* a handler without the `finally`
ReleaseLatchSkipped(m, s) == m

\* the `finally` of handleUserAudio
ReleaseLatch(m, s) == MapSet(m, s, FALSE)

\* The event arrives: the guard, the latch, the activity record and the size
\* check run before the first await (the synthesis of the feedback, or the
\* transcription).
UserAudio(k, s, chars) ==
    /\ sockets[k] = "open"
    /\ Inbound(s)
    /\ out' = <<>>
    /\ IF GuardDrops(s)
       THEN /\ last' = Step("user-audio", s, nEvents + 1, "dropped")
            /\ UNCHANGED <<processingAudio, sessionLastActivity, runs>>
       ELSE LET bytes == DecodedLength(chars)
                small == BelowSizeFloor(bytes) IN
            /\ processingAudio' = MapSet(processingAudio, s, TRUE)
            /\ sessionLastActivity' = UpdateSessionActivity(sessionLastActivity, s)
            /\ runs' = runs \cup
                 {AudioRun(nEvents + 1, s, k, IF small THEN "feedback" ELSE "stt", bytes, 0,
                           IF small THEN "small" ELSE None)}
            /\ last' = Step("user-audio", s, nEvents + 1, IF small THEN "small" ELSE "accepted")
    /\ UNCHANGED <<now, sockets, rooms, sessions, aiPeers, openPeers, peerSeq, greetingSent,
                   conversationHistory, arrays, offers, greetings, chatVars, nTicks,
                   callVars>>

\* transcribeAudio is over with `text`; the validity checks run, and a usable
\* transcript reads the history and calls the response generator.
Transcription(r, text, op) ==
    /\ r \in runs /\ r.pc = "stt"
    /\ LET verdict == Classify(text) IN
       IF verdict = "usable"
       THEN LET has == HasHistory(conversationHistory, r.sid)
                h == IF has THEN conversationHistory[r.sid] ELSE FreshArray(arrays) IN
            /\ arrays' = IF has THEN arrays ELSE MapSet(arrays, h, <<>>)
            /\ runs' = (runs \ {r}) \cup {[r EXCEPT !.pc = "generate", !.hist = h]}
       ELSE /\ runs' = (runs \ {r}) \cup {[r EXCEPT !.pc = "feedback", !.why = verdict]}
            /\ UNCHANGED arrays
    /\ last' = [Step(op, r.sid, r.id, Classify(text)) EXCEPT !.text = text]
    /\ out' = <<>>
    /\ Internal
    /\ UNCHANGED <<now, sockets, rooms, sessions, aiPeers, openPeers, peerSeq, greetingSent,
                   processingAudio, conversationHistory, sessionLastActivity, offers,
                   greetings, chatVars, nTicks,
                   callVars>>

\* the Whisper call returns a text, which transcribeAudio returns
Transcribed(r, text) == Transcription(r, text, "transcribed")

\* the Whisper call throws: transcribeAudio logs it and returns ''
TranscriptionFailed(r) == Transcription(r, <<>>, "transcription-failed")

\* sendFeedbackResponse: the synthesis returns and the feedback is emitted, or it
\* throws and the throw is swallowed; then the `finally`.
FeedbackDone(r, ok) ==
    /\ r \in runs /\ r.pc = "feedback"
    /\ out' = IF ok THEN << Ev("ai-audio-response", ToRoom(r.sid), Utterance(r.why)) >> ELSE <<>>
    /\ processingAudio' = ReleaseLatch(processingAudio, r.sid)
    /\ runs' = runs \ {r}
    /\ arrays' = Collect(arrays, conversationHistory, runs')
    /\ last' = [Step("feedback", r.sid, r.id, IF ok THEN "sent" ELSE "swallowed")
                    EXCEPT !.why = r.why]
    /\ Internal
    /\ UNCHANGED <<now, sockets, rooms, sessions, aiPeers, openPeers, peerSeq, greetingSent,
                   conversationHistory, sessionLastActivity, offers, greetings, chatVars,
                   nTicks,
                   callVars>>

\* generateResponse returns: the turn is pushed onto the array the run holds, the
\* array is cut to 20 entries and stored under the session id; then synthesis is
\* called.  Or generateResponse throws: `catch`, then `finally`.
Generated(r, ok) ==
    /\ r \in runs /\ r.pc = "generate"
    /\ IF ok
       THEN /\ conversationHistory' = MapSet(conversationHistory, r.sid, r.hist)
            /\ runs' = (runs \ {r}) \cup {[r EXCEPT !.pc = "synthesize"]}
            /\ arrays' = Collect([arrays EXCEPT ![r.hist] = PushTurn(arrays[r.hist], r.id)],
                                 conversationHistory', runs')
            /\ out' = <<>>
            /\ UNCHANGED processingAudio
       ELSE /\ out' = << Ev("error", ToSocket(r.client), "Failed to process audio") >>
            /\ processingAudio' = ReleaseLatch(processingAudio, r.sid)
            /\ runs' = runs \ {r}
            /\ arrays' = Collect(arrays, conversationHistory, runs')
            /\ UNCHANGED conversationHistory
    /\ last' = Step("generated", r.sid, r.id,
                    IF ~ok THEN "threw" ELSE IF Overflows(arrays[r.hist]) THEN "cut" ELSE "ok")
    /\ Internal
    /\ UNCHANGED <<now, sockets, rooms, sessions, aiPeers, openPeers, peerSeq, greetingSent,
                   sessionLastActivity, offers, greetings, chatVars, nTicks,
                   callVars>>

\* textToSpeech returns and the response is emitted, or it throws: `catch`; then
\* the `finally`.
Synthesized(r, ok) ==
    /\ r \in runs /\ r.pc = "synthesize"
    /\ out' = IF ok THEN << Ev("ai-audio-response", ToRoom(r.sid), "response") >>
                    ELSE << Ev("error", ToSocket(r.client), "Failed to process audio") >>
    /\ processingAudio' = ReleaseLatch(processingAudio, r.sid)
    /\ runs' = runs \ {r}
    /\ arrays' = Collect(arrays, conversationHistory, runs')
    /\ last' = Step("synthesized", r.sid, r.id, IF ok THEN "ok" ELSE "threw")
    /\ Internal
    /\ UNCHANGED <<now, sockets, rooms, sessions, aiPeers, openPeers, peerSeq, greetingSent,
                   conversationHistory, sessionLastActivity, offers, greetings, chatVars,
                   nTicks,
                   callVars>>

----------------------------------------------------------------------------
(* SignalingGateway: the idle reaper, and the clock *)

\* `lastActivity <= timeoutThreshold`
TimedOutInclusive(lastActivity, t) == lastActivity <= t - SESSION_TIMEOUT_MS

\* `lastActivity < timeoutThreshold`
TimedOut(lastActivity, t) == lastActivity < t - SESSION_TIMEOUT_MS

\* the session ids cleanupInactiveSessions hands to cleanupSession
Stale(activity, t) == {s \in DOMAIN activity : TimedOut(activity[s], t)}

RECURSIVE DeleteAll(_, _)
DeleteAll(m, ks) ==
    IF ks = {} THEN m ELSE LET k == CHOOSE x \in ks : TRUE IN DeleteAll(OMapDelete(m, k), ks \ {k})

\* cleanupInactiveSessions, with cleanupSession for every stale id
CleanupInactiveSessions ==
    LET stale == Stale(sessionLastActivity, now)
        closed == {s \in stale : MapHas(aiPeers, s)} IN
    /\ openPeers' = openPeers \ {aiPeers[s] : s \in closed}
    /\ aiPeers' = [s \in (DOMAIN aiPeers) \ stale |-> aiPeers[s]]
    /\ sessions' = DeleteAll(sessions, stale)
    /\ greetingSent' = greetingSent \ stale
    /\ processingAudio' = [s \in (DOMAIN processingAudio) \ stale |-> processingAudio[s]]
    /\ conversationHistory' =
           [s \in (DOMAIN conversationHistory) \ stale |-> conversationHistory[s]]
    /\ arrays' = Collect(arrays, conversationHistory', runs)
    /\ sessionLastActivity' =
           [s \in (DOMAIN sessionLastActivity) \ stale |-> sessionLastActivity[s]]
    /\ out' = SetToSeq({ClosePeer(s, aiPeers[s]) : s \in closed})
    /\ last' = Step("cleanup", None, 0, None)
    /\ orphaned' = orphaned \cup Pending(stale)
    /\ UNCHANGED <<nEvents, lastEventAt, leftTurns, scheduled>>
    /\ UNCHANGED <<now, sockets, rooms, peerSeq, runs, offers, greetings, chatVars, nTicks,
                   callVars>>

\* time passes
AdvanceTime(d) ==
    /\ nTicks < MaxTicks
    /\ nTicks' = nTicks + 1
    /\ now' = now + d
    /\ last' = Step("clock", None, 0, None)
    /\ out' = <<>>
    /\ Internal
    /\ UNCHANGED <<sockets, sigVars, chatVars, callVars>>

----------------------------------------------------------------------------
(* SignalingGateway.handleOffer and the delayed greeting *)

\* The synchronous part of handleOffer: the session is looked up or created as a
\* fallback, a missing callId is filled in, a new AICallPeer is built and stored;
\* then aiPeer.handleOffer is awaited.
Offer(k, s, p) ==
    /\ sockets[k] = "open"
    /\ InboundCreating(s)
    /\ LET known == s \in OMapKeys(sessions)
           session == IF known THEN OMapGet(sessions, s)
                               ELSE [socketId |-> k, peerId |-> p, callId |-> s]
           filled == IF session.callId = None THEN [session EXCEPT !.callId = s] ELSE session
       IN /\ sessions' = OMapSet(sessions, s, filled)
          /\ rooms' = IF known THEN rooms ELSE rooms \cup {<<k, s>>}
    /\ peerSeq' = peerSeq + 1
    /\ openPeers' = openPeers \cup {peerSeq'}
    /\ aiPeers' = MapSet(aiPeers, s, peerSeq')
    /\ offers' = offers \cup {[id |-> nEvents + 1, sid |-> s, client |-> k, peer |-> peerSeq']}
    /\ out' = <<>>
    /\ last' = Step("offer", s, nEvents + 1, k)
    /\ UNCHANGED <<now, sockets, greetingSent, processingAudio, conversationHistory, arrays,
                   sessionLastActivity, runs, greetings, chatVars, nTicks,
                   callVars>>

\* a greeting for every answer
GreetingDueAlways(sent, s) == TRUE

\* `if (!this.greetingSent.has(sessionId))`
GreetingDue(sent, s) == s \notin sent

\* aiPeer.handleOffer returns an answer: it is emitted, and the first time for
\* the session the greeting is scheduled.  Or it throws: an error is emitted.
Answered(o, ok) ==
    /\ o \in offers
    /\ offers' = offers \ {o}
    /\ IF ok
       THEN /\ out' = << Ev("answer", ToSocket(o.client), "ai-server") >>
            /\ IF GreetingDue(greetingSent, o.sid)
               THEN /\ greetingSent' = greetingSent \cup {o.sid}
                    /\ greetings' = greetings \cup
                         {[id |-> o.id, sid |-> o.sid, pc |-> "timer",
                           due |-> now + GREETING_DELAY_MS]}
                    /\ scheduled' = IF o.sid \in OMapKeys(sessions)
                                    THEN [scheduled EXCEPT ![o.sid] = @ + 1]
                                    ELSE scheduled
               ELSE UNCHANGED <<greetingSent, greetings, scheduled>>
       ELSE /\ out' = << Ev("error", ToSocket(o.client),
                            "Failed to establish connection with AI server") >>
            /\ UNCHANGED <<greetingSent, greetings, scheduled>>
    /\ last' = Step("answered", o.sid, o.id, IF ok THEN "ok" ELSE "threw")
    /\ UNCHANGED <<nEvents, lastEventAt, leftTurns, orphaned>>
    /\ UNCHANGED <<now, sockets, rooms, sessions, aiPeers, openPeers, peerSeq,
                   processingAudio, conversationHistory, arrays, sessionLastActivity, runs,
                   chatVars, nTicks,
                   callVars>>

\* the setTimeout callback runs, not before its delay has passed, and awaits the
\* synthesis of the greeting
GreetingTimer(g) ==
    /\ g \in greetings /\ g.pc = "timer"
    /\ now >= g.due
    /\ greetings' = (greetings \ {g}) \cup {[g EXCEPT !.pc = "synthesize"]}
    /\ out' = <<>>
    /\ last' = Step("greeting-timer", g.sid, g.id, None)
    /\ Internal
    /\ UNCHANGED <<now, sockets, rooms, sessions, aiPeers, openPeers, peerSeq, greetingSent,
                   processingAudio, conversationHistory, arrays, sessionLastActivity, runs,
                   offers, chatVars, nTicks,
                   callVars>>

\* the greeting's synthesis returns and the greeting is emitted, or it throws and
\* the failure is logged
Greeted(g, ok) ==
    /\ g \in greetings /\ g.pc = "synthesize"
    /\ greetings' = greetings \ {g}
    /\ out' = IF ok THEN << Ev("ai-audio-response", ToRoom(g.sid), "greeting") >> ELSE <<>>
    /\ last' = Step("greeted", g.sid, g.id, IF ok THEN "sent" ELSE "threw")
    /\ Internal
    /\ UNCHANGED <<now, sockets, rooms, sessions, aiPeers, openPeers, peerSeq, greetingSent,
                   processingAudio, conversationHistory, arrays, sessionLastActivity, runs,
                   offers, chatVars, nTicks,
                   callVars>>

----------------------------------------------------------------------------
(* ChatGateway *)

ChatRun(id, s, k, u, pc, hist) ==
    [id |-> id, sid |-> s, client |-> k, user |-> u, pc |-> pc, hist |-> hist]

ChatError(k, msg) == Ev("error", ToSocket(k), msg)

\* handleConnection / handleDisconnect: the sessions Map is only read
ChatConnect(k) ==
    /\ chatSockets[k] = "new"
    /\ chatSockets' = [chatSockets EXCEPT ![k] = "open"]
    /\ nEvents' = nEvents + 1
    /\ last' = Step("chat-connect", None, 0, k)
    /\ out' = <<>>
    /\ UNCHANGED <<now, sockets, sigVars, chatStore, chatRooms, chatSessions, chatHistory, chatArrays,
                   chatLastActivity, chatRuns, lastEventAt, leftTurns, orphaned, scheduled, nTicks,
                   callVars>>

ChatDisconnect(k) ==
    /\ chatSockets[k] = "open"
    /\ chatSockets' = [chatSockets EXCEPT ![k] = "closed"]
    /\ chatRooms' = {m \in chatRooms : m[1] # k}
    /\ nEvents' = nEvents + 1
    /\ last' = Step("chat-disconnect", None, 0, k)
    /\ out' = <<>>
    /\ UNCHANGED <<now, sockets, sigVars, chatStore, chatSessions, chatHistory, chatArrays,
                   chatLastActivity, chatRuns, lastEventAt, leftTurns, orphaned, scheduled, nTicks,
                   callVars>>

\* handleJoinChat up to `await this.createSessionUseCase.execute`
JoinChat(k, s, u) ==
    /\ chatSockets[k] = "open"
    /\ chatRuns' = chatRuns \cup {ChatRun(nEvents + 1, s, k, u, "create", 0)}
    /\ out' = <<>>
    /\ last' = Step("join-chat", s, nEvents + 1, k)
    /\ Inbound(s)
    /\ UNCHANGED <<now, sockets, sigVars, chatStore, chatSockets, chatRooms, chatSessions, chatHistory,
                   chatArrays, chatLastActivity, nTicks,
                   callVars>>

\* chat_sessions.session_id is unique and CreateChatSessionUseCase always saves
\* a new row (a fresh primary key): the insert of a second row for a session id
\* is rejected by the database.
SaveRejected(store, s) == s \in store

\* createSessionUseCase.execute is over.  The row is inserted: the gateway
\* registers the session, touches it, joins the room, gives it a history if it
\* has none, and asks the store for the messages.  Or the insert is rejected
\* ("duplicate"), or the database fails for another reason ("threw"): `catch`.
SessionCreated(r, ok) ==
    /\ r \in chatRuns /\ r.pc = "create"
    /\ IF ok /\ ~SaveRejected(chatStore, r.sid)
       THEN LET has == MapHas(chatHistory, r.sid)
                h == IF has THEN chatHistory[r.sid] ELSE FreshArray(chatArrays) IN
            /\ chatStore' = chatStore \cup {r.sid}
            /\ chatSessions' = MapSet(chatSessions, r.sid, [socketId |-> r.client, userId |-> r.user])
            /\ chatLastActivity' = UpdateSessionActivity(chatLastActivity, r.sid)
            /\ chatRooms' = chatRooms \cup {<<r.client, r.sid>>}
            /\ chatHistory' = MapSet(chatHistory, r.sid, h)
            /\ chatArrays' = IF has THEN chatArrays ELSE MapSet(chatArrays, h, <<>>)
            /\ chatRuns' = (chatRuns \ {r}) \cup {[r EXCEPT !.pc = "history"]}
            /\ out' = << Ev("chat-joined", ToSocket(r.client), r.sid) >>
       ELSE /\ chatRuns' = chatRuns \ {r}
            /\ out' = << ChatError(r.client, "join failed") >>
            /\ UNCHANGED <<chatSessions, chatLastActivity, chatRooms, chatHistory, chatArrays,
                           chatStore>>
    /\ last' = Step("session-created", r.sid, r.id,
                    IF ~ok THEN "threw" ELSE IF SaveRejected(chatStore, r.sid) THEN "duplicate"
                    ELSE "ok")
    /\ Internal
    /\ UNCHANGED <<now, sockets, sigVars, chatSockets, nTicks,
                   callVars>>

\* getChatHistoryUseCase returns the stored messages (none, or some), or throws
HistoryLoaded(r, ok, empty) ==
    /\ r \in chatRuns /\ r.pc = "history"
    /\ IF ok
       THEN /\ out' = << Ev("chat-history", ToSocket(r.client), IF empty THEN "empty" ELSE "some") >>
            /\ chatRuns' = IF empty THEN (chatRuns \ {r}) \cup {[r EXCEPT !.pc = "welcome"]}
                                    ELSE chatRuns \ {r}
       ELSE /\ out' = << ChatError(r.client, "join failed") >>
            /\ chatRuns' = chatRuns \ {r}
    /\ last' = Step("history-loaded", r.sid, r.id, IF ok THEN "ok" ELSE "threw")
    /\ Internal
    /\ UNCHANGED <<now, sockets, sigVars, chatStore, chatSockets, chatRooms, chatSessions, chatHistory,
                   chatArrays, chatLastActivity, nTicks,
                   callVars>>

\* the welcome message is stored and sent, or storing it throws
WelcomeSaved(r, ok) ==
    /\ r \in chatRuns /\ r.pc = "welcome"
    /\ out' = IF ok THEN << Ev("ai-message", ToRoom(r.sid), "welcome") >>
                    ELSE << ChatError(r.client, "join failed") >>
    /\ chatRuns' = chatRuns \ {r}
    /\ last' = Step("welcome-saved", r.sid, r.id, IF ok THEN "ok" ELSE "threw")
    /\ Internal
    /\ UNCHANGED <<now, sockets, sigVars, chatStore, chatSockets, chatRooms, chatSessions, chatHistory,
                   chatArrays, chatLastActivity, nTicks,
                   callVars>>

\* handleSendMessage up to the first `await this.sendMessageUseCase.execute`
SendMessage(k, s) ==
    /\ chatSockets[k] = "open"
    /\ chatLastActivity' = UpdateSessionActivity(chatLastActivity, s)
    /\ chatRuns' = chatRuns \cup {ChatRun(nEvents + 1, s, k, None, "save-user", 0)}
    /\ out' = <<>>
    /\ last' = Step("send-message", s, nEvents + 1, k)
    /\ Inbound(s)
    /\ UNCHANGED <<now, sockets, sigVars, chatStore, chatSockets, chatRooms, chatSessions, chatHistory,
                   chatArrays, nTicks,
                   callVars>>

\* the user's message is stored: it is echoed, the history is read and the
\* response generator is called.  Or storing it throws.
UserSaved(r, ok) ==
    /\ r \in chatRuns /\ r.pc = "save-user"
    /\ IF ok
       THEN LET has == HasHistory(chatHistory, r.sid)
                h == IF has THEN chatHistory[r.sid] ELSE FreshArray(chatArrays) IN
            /\ chatArrays' = IF has THEN chatArrays ELSE MapSet(chatArrays, h, <<>>)
            /\ chatRuns' = (chatRuns \ {r}) \cup {[r EXCEPT !.pc = "generate", !.hist = h]}
            /\ out' = << Ev("message-sent", ToSocket(r.client), ToString(r.id)) >>
       ELSE /\ chatRuns' = chatRuns \ {r}
            /\ out' = << ChatError(r.client, "message failed") >>
            /\ UNCHANGED chatArrays
    /\ last' = Step("user-saved", r.sid, r.id, IF ok THEN "ok" ELSE "threw")
    /\ Internal
    /\ UNCHANGED <<now, sockets, sigVars, chatStore, chatSockets, chatRooms, chatSessions, chatHistory,
                   chatLastActivity, nTicks,
                   callVars>>

\* chatAIService.generateResponse returns: the turn is pushed, the array is cut to
\* 20 entries and stored; the response is handed to the store.  Or it throws.
ChatGenerated(r, ok) ==
    /\ r \in chatRuns /\ r.pc = "generate"
    /\ IF ok
       THEN /\ chatHistory' = MapSet(chatHistory, r.sid, r.hist)
            /\ chatRuns' = (chatRuns \ {r}) \cup {[r EXCEPT !.pc = "save-assistant"]}
            /\ chatArrays' = Collect([chatArrays EXCEPT ![r.hist] = PushTurn(chatArrays[r.hist], r.id)],
                                     chatHistory', chatRuns')
            /\ out' = <<>>
       ELSE /\ chatRuns' = chatRuns \ {r}
            /\ chatArrays' = Collect(chatArrays, chatHistory, chatRuns')
            /\ out' = << ChatError(r.client, "message failed") >>
            /\ UNCHANGED chatHistory
    /\ last' = Step("chat-generated", r.sid, r.id,
                    IF ~ok THEN "threw" ELSE IF Overflows(chatArrays[r.hist]) THEN "cut" ELSE "ok")
    /\ Internal
    /\ UNCHANGED <<now, sockets, sigVars, chatStore, chatSockets, chatRooms, chatSessions,
                   chatLastActivity, nTicks,
                   callVars>>

\* the response is stored and sent to the room, or storing it throws
AssistantSaved(r, ok) ==
    /\ r \in chatRuns /\ r.pc = "save-assistant"
    /\ out' = IF ok THEN << Ev("ai-message", ToRoom(r.sid), ToString(r.id)) >>
                    ELSE << ChatError(r.client, "message failed") >>
    /\ chatRuns' = chatRuns \ {r}
    /\ chatArrays' = Collect(chatArrays, chatHistory, chatRuns')
    /\ last' = Step("assistant-saved", r.sid, r.id, IF ok THEN "ok" ELSE "threw")
    /\ Internal
    /\ UNCHANGED <<now, sockets, sigVars, chatStore, chatSockets, chatRooms, chatSessions, chatHistory,
                   chatLastActivity, nTicks,
                   callVars>>

\* handleLeaveChat: the history is kept
LeaveChat(k, s) ==
    /\ chatSockets[k] = "open"
    /\ chatRooms' = chatRooms \ {<<k, s>>}
    /\ chatSessions' = MapDelete(chatSessions, s)
    /\ out' = << Ev("chat-left", ToSocket(k), s) >>
    /\ last' = Step("leave-chat", s, 0, k)
    /\ Inbound(s)
    /\ UNCHANGED <<now, sockets, sigVars, chatStore, chatSockets, chatHistory, chatArrays,
                   chatLastActivity, chatRuns, nTicks,
                   callVars>>

\* ChatGateway.cleanupInactiveSessions, with cleanupSession for every stale id
ChatCleanupInactiveSessions ==
    LET stale == Stale(chatLastActivity, now) IN
    /\ chatSessions' = [s \in (DOMAIN chatSessions) \ stale |-> chatSessions[s]]
    /\ chatHistory' = [s \in (DOMAIN chatHistory) \ stale |-> chatHistory[s]]
    /\ chatArrays' = Collect(chatArrays, chatHistory', chatRuns)
    /\ chatLastActivity' = [s \in (DOMAIN chatLastActivity) \ stale |-> chatLastActivity[s]]
    /\ out' = <<>>
    /\ last' = Step("chat-cleanup", None, 0, None)
    /\ Internal
    /\ UNCHANGED <<now, sockets, sigVars, chatStore, chatSockets, chatRooms, chatRuns, nTicks,
                   callVars>>

----------------------------------------------------------------------------
(* The gateways under their clients, their collaborators and the clock *)

\* what the clients on sockets KK may send about the sessions SS
SigClient(KK, SS) ==
    \E k \in KK :
        \/ Connect(k)
        \/ Disconnect(k)
        \/ \E s \in SS :
            \/ \E p \in PeerIds, c \in CallIds : JoinSession(k, s, p, c)
            \/ \E p \in PeerIds : LeaveSession(k, s, p)
            \/ \E p \in PeerIds : Offer(k, s, p)
            \/ \E chars \in AudioChars : UserAudio(k, s, chars)

\* an awaited call of the signaling gateway returns or throws, or a timer fires
SigCollaborator ==
    \/ \E r \in runs : \E text \in Transcripts : Transcribed(r, text)
    \/ \E r \in runs : TranscriptionFailed(r)
    \/ \E r \in runs : \E ok \in BOOLEAN : FeedbackDone(r, ok)
    \/ \E r \in runs : \E ok \in BOOLEAN : Generated(r, ok)
    \/ \E r \in runs : \E ok \in BOOLEAN : Synthesized(r, ok)
    \/ \E o \in offers : \E ok \in BOOLEAN : Answered(o, ok)
    \/ \E g \in greetings : GreetingTimer(g)
    \/ \E g \in greetings : \E ok \in BOOLEAN : Greeted(g, ok)

ChatClient(KK, SS) ==
    \E k \in KK :
        \/ ChatConnect(k)
        \/ ChatDisconnect(k)
        \/ \E s \in SS :
            \/ JoinChat(k, s, "u1")
            \/ SendMessage(k, s)
            \/ LeaveChat(k, s)

ChatCollaborator ==
    \/ \E r \in chatRuns : \E ok \in BOOLEAN : SessionCreated(r, ok)
    \/ \E r \in chatRuns : \E ok \in BOOLEAN, empty \in BOOLEAN : HistoryLoaded(r, ok, empty)
    \/ \E r \in chatRuns : \E ok \in BOOLEAN : WelcomeSaved(r, ok)
    \/ \E r \in chatRuns : \E ok \in BOOLEAN : UserSaved(r, ok)
    \/ \E r \in chatRuns : \E ok \in BOOLEAN : ChatGenerated(r, ok)
    \/ \E r \in chatRuns : \E ok \in BOOLEAN : AssistantSaved(r, ok)

Clock == \E d \in Delays : AdvanceTime(d)

\* The signaling gateway: all sockets, on one session
Next ==
    \/ nEvents < MaxEvents /\ SigClient(Sockets, {"s1"})
    \/ SigCollaborator
    \/ CleanupInactiveSessions
    \/ Clock

Spec == Init /\ [][Next]_vars

\* The chat gateway, all sockets and sessions
NextChat ==
    \/ nEvents < MaxChatEvents /\ ChatClient(Sockets, Sessions)
    \/ ChatCollaborator
    \/ ChatCleanupInactiveSessions
    \/ Clock

SpecChat == Init /\ [][NextChat]_vars

\* The signaling gateway with one client and one session
NextGuard ==
    \/ nEvents < MaxGuardEvents /\ SigClient({"k1"}, {"s1"})
    \/ SigCollaborator
    \/ CleanupInactiveSessions
    \/ Clock

SpecGuard == Init /\ [][NextGuard]_vars

\* the awaited calls of handleUserAudio return or throw
RunStep ==
    \/ \E r \in runs : \E text \in Transcripts : Transcribed(r, text)
    \/ \E r \in runs : TranscriptionFailed(r)
    \/ \E r \in runs : \E ok \in BOOLEAN : FeedbackDone(r, ok)
    \/ \E r \in runs : \E ok \in BOOLEAN : Generated(r, ok)
    \/ \E r \in runs : \E ok \in BOOLEAN : Synthesized(r, ok)

\* The audio path of the signaling gateway alone, one client and one session: no
\* offer is made, so no peer and no greeting exist.  Every run that is in flight
\* keeps RunStep enabled, and the promises of the awaited calls settle, hence
\* the weak fairness.
NextLatch ==
    \/ /\ nEvents < MaxGuardEvents
       /\ \/ Connect("k1")
          \/ Disconnect("k1")
          \/ \E p \in PeerIds, c \in CallIds : JoinSession("k1", "s1", p, c)
          \/ \E p \in PeerIds : LeaveSession("k1", "s1", p)
          \/ \E chars \in AudioChars : UserAudio("k1", "s1", chars)
    \/ RunStep
    \/ CleanupInactiveSessions
    \/ Clock

FairLatch == Init /\ [][NextLatch]_vars /\ WF_vars(RunStep)

\* Long conversations of one session, turn after turn: the client of the chat
\* gateway sends when its last message has been answered (the signaling gateway
\* drops what arrives earlier).  The two gateways share no field, so each is run
\* alone: the client of one connects only while the other has none.
SigIdle == \A k \in Sockets : sockets[k] = "new"
ChatIdle == \A k \in Sockets : chatSockets[k] = "new"

NextWindow ==
    \/ /\ nEvents < MaxWindowEvents /\ ChatIdle
       /\ \/ Connect("k1")
          \/ \E chars \in AudioChars : UserAudio("k1", "s1", chars)
    \/ RunStep
    \/ /\ nEvents < MaxWindowEvents /\ SigIdle
       /\ \/ ChatConnect("k1")
          \/ chatRuns = {} /\ JoinChat("k1", "s1", "u1")
          \/ chatRuns = {} /\ SendMessage("k1", "s1")
    \/ ChatCollaborator

SpecWindow == Init /\ [][NextWindow]_vars

\* One client that talks, leaves and comes back with an offer, in one session
NextRejoin ==
    \/ /\ nEvents < MaxRejoinEvents
       /\ \/ Connect("k1")
          \/ UserAudio("k1", "s1", 26667)
          \/ \E p \in PeerIds : LeaveSession("k1", "s1", p)
          \/ \E p \in PeerIds : Offer("k1", "s1", p)
    \/ RunStep
    \/ \E o \in offers : \E ok \in BOOLEAN : Answered(o, ok)

SpecRejoin == Init /\ [][NextRejoin]_vars

\* an offer is answered or fails, a greeting timer fires, a greeting is synthesized
OfferStep ==
    \/ \E o \in offers : \E ok \in BOOLEAN : Answered(o, ok)
    \/ \E g \in greetings : GreetingTimer(g)
    \/ \E g \in greetings : \E ok \in BOOLEAN : Greeted(g, ok)

\* Sessions, peers and greetings without the audio path: one client that joins,
\* offers, leaves and disconnects, in one session.  The sweep runs on an
\* interval timer, the awaited calls settle and the clock moves on, hence the
\* weak fairness of FairOffers.
NextOffers ==
    \/ /\ nEvents < MaxOfferEvents
       /\ \/ Connect("k1")
          \/ Disconnect("k1")
          \/ \E p \in PeerIds, c \in CallIds : JoinSession("k1", "s1", p, c)
          \/ \E p \in PeerIds : LeaveSession("k1", "s1", p)
          \/ \E p \in PeerIds : Offer("k1", "s1", p)
    \/ OfferStep
    \/ CleanupInactiveSessions
    \/ Clock

SpecOffers == Init /\ [][NextOffers]_vars

FairOffers ==
    Init /\ [][NextOffers]_vars /\ WF_vars(OfferStep) /\ WF_vars(CleanupInactiveSessions)
         /\ WF_vars(Clock)

\* Sockets that bind themselves to sessions and go away: all sockets and
\* sessions, joins and disconnects only
NextBind ==
    /\ nEvents < MaxBindEvents
    /\ \E k \in Sockets :
          \/ Connect(k)
          \/ Disconnect(k)
          \/ \E s \in Sessions, p \in PeerIds, c \in CallIds : JoinSession(k, s, p, c)

SpecBind == Init /\ [][NextBind]_vars

----------------------------------------------------------------------------
(* Calls: the Call entity, its status and the call use cases *)

CallStatusEnum == {"INITIATING", "RINGING", "CONNECTING", "IN_PROGRESS", "ENDED", "FAILED"}

\* CallStatus.isActive
IsActive(status) == status \in {"INITIATING", "RINGING", "CONNECTING", "IN_PROGRESS"}

\* a status that accepts every transition
CanTransitionAnywhere(status, newStatus) == TRUE

\* CallStatus.canTransitionTo
CanTransitionTo(status, newStatus) ==
    LET transitions ==
            [st \in CallStatusEnum |->
                CASE st = "INITIATING" -> {"RINGING", "FAILED", "ENDED"}
                  [] st = "RINGING" -> {"CONNECTING", "FAILED", "ENDED"}
                  [] st = "CONNECTING" -> {"IN_PROGRESS", "FAILED", "ENDED"}
                  [] st = "IN_PROGRESS" -> {"ENDED"}
                  [] st = "ENDED" -> {}
                  [] st = "FAILED" -> {}]
    IN newStatus \in transitions[status]

CallEntityIds == 1..Len(calls)

\* the step of a call operation: its call, the caller number, how it went and
\* the status the call had before
CallStep(op, id, caller, note, before) ==
    [Step(op, caller, id, note) EXCEPT !.why = before]

NotCalls == UNCHANGED <<now, sockets, sigVars, chatVars, lastEventAt, leftTurns, orphaned,
                        scheduled, nEvents,
                        nTicks>>

\* Call.transitionStatus, called by the entity method op: throws and leaves
\* the entity alone when the status does not accept newStatus
TransitionStatus(id, op, newStatus) ==
    /\ id \in CallEntityIds
    /\ IF CanTransitionTo(calls[id].status, newStatus)
       THEN /\ calls' = [calls EXCEPT ![id].status = newStatus]
            /\ last' = CallStep(op, id, calls[id].caller, "ok", calls[id].status)
       ELSE /\ calls' = calls
            /\ last' = CallStep(op, id, calls[id].caller, "threw", calls[id].status)
    /\ out' = {}
    /\ NotCalls

\* Call.create: a new entity, not yet in the repository
Create(callerNumber) ==
    /\ Len(calls) < MaxCalls
    /\ calls' = Append(calls, [caller |-> callerNumber, status |-> "INITIATING",
                               saved |-> FALSE])
    /\ last' = CallStep("create", Len(calls) + 1, callerNumber, "ok", None)
    /\ out' = {}
    /\ NotCalls

StartRinging(id) == TransitionStatus(id, "startRinging", "RINGING")
StartConnecting(id) == TransitionStatus(id, "startConnecting", "CONNECTING")
CallConnect(id) == TransitionStatus(id, "connect", "IN_PROGRESS")
CallEnd(id) == TransitionStatus(id, "end", "ENDED")
CallFail(id) == TransitionStatus(id, "fail", "FAILED")

\* CallRepository.findActiveCallsByCallerNumber
FindActiveCallsByCallerNumber(callerNumber) ==
    {id \in CallEntityIds : /\ calls[id].saved
                      /\ calls[id].caller = callerNumber
                      /\ IsActive(calls[id].status)}

\* InitiateCallUseCase.execute: create, startRinging, save
InitiateCall(callerNumber) ==
    /\ Len(calls) < MaxCalls
    /\ calls' = Append(calls, [caller |-> callerNumber, status |-> "RINGING",
                               saved |-> TRUE])
    /\ last' = CallStep("initiate-call", Len(calls) + 1, callerNumber, "ok", "INITIATING")
    /\ out' = {}
    /\ NotCalls

\* ConnectCallUseCase.execute: findById, startConnecting, connect, update
ConnectCall(id) ==
    /\ id \in CallEntityIds
    /\ IF ~calls[id].saved
       THEN /\ calls' = calls
            /\ last' = CallStep("connect-call", id, calls[id].caller, "not-found",
                                calls[id].status)
       ELSE IF /\ CanTransitionTo(calls[id].status, "CONNECTING")
               /\ CanTransitionTo("CONNECTING", "IN_PROGRESS")
            THEN /\ calls' = [calls EXCEPT ![id].status = "IN_PROGRESS"]
                 /\ last' = CallStep("connect-call", id, calls[id].caller, "ok",
                                     calls[id].status)
            ELSE \* startConnecting threw
                 /\ calls' = calls
                 /\ last' = CallStep("connect-call", id, calls[id].caller, "threw",
                                     calls[id].status)
    /\ out' = {}
    /\ NotCalls

\* EndCallUseCase.execute: findById, end, update
EndCall(id) ==
    /\ id \in CallEntityIds
    /\ IF ~calls[id].saved
       THEN /\ calls' = calls
            /\ last' = CallStep("end-call", id, calls[id].caller, "not-found",
                                calls[id].status)
       ELSE IF CanTransitionTo(calls[id].status, "ENDED")
            THEN /\ calls' = [calls EXCEPT ![id].status = "ENDED"]
                 /\ last' = CallStep("end-call", id, calls[id].caller, "ok",
                                     calls[id].status)
            ELSE /\ calls' = calls
                 /\ last' = CallStep("end-call", id, calls[id].caller, "threw",
                                     calls[id].status)
    /\ out' = {}
    /\ NotCalls

NextCalls ==
    \/ \E c \in Callers : Create(c)
    \/ \E c \in Callers : InitiateCall(c)
    \/ \E id \in 1..MaxCalls : StartRinging(id)
    \/ \E id \in 1..MaxCalls : StartConnecting(id)
    \/ \E id \in 1..MaxCalls : CallConnect(id)
    \/ \E id \in 1..MaxCalls : CallEnd(id)
    \/ \E id \in 1..MaxCalls : CallFail(id)
    \/ \E id \in 1..MaxCalls : ConnectCall(id)
    \/ \E id \in 1..MaxCalls : EndCall(id)

SpecCalls == Init /\ [][NextCalls]_vars

----------------------------------------------------------------------------
(* The claims *)

\* C1: for every session id, at most one user-audio pipeline run (transcribe ->
\* generate -> synthesize) is in flight at any instant, under every interleaving
\* of the client events.
C1_AtMostOneRunPerSession ==
    \A s \in Sessions :
        Cardinality({r \in RunsOf(s) : r.pc \in {"stt", "generate", "synthesize"}}) <= 1

\* C2: a user-audio event that arrives while the latch of its session is held is
\* dropped: the step emits nothing, starts no run (so nothing is processed later)
\* and changes no field of the gateway, the window and the latch included.
C2_DroppedAudioChangesNothing ==
    [][ \A s \in Sessions :
          (Latched(s) /\ last'.op = "user-audio" /\ last'.sid = s)
              => (out' = <<>> /\ UNCHANGED sigVars) ]_vars

C2_Witness ==
    /\ last.op = "user-audio"
    /\ last.note = "dropped"
    /\ Latched(last.sid)
    /\ \E r \in RunsOf(last.sid) : r.id < last.run

\* C3: provided the awaited calls return or throw, a held latch is eventually not
\* held, however the run that took it ends.
C3_LatchEventuallyReleased ==
    \A s \in Sessions : Latched(s) ~> ~Latched(s)

C3_Witness ==
    /\ last.op = "generated"
    /\ last.note = "threw"
    /\ MapHas(processingAudio, last.sid)
    /\ ~processingAudio[last.sid]
    /\ RunsOf(last.sid) = {}

\* the ids of the turns of a window, oldest first
TurnIds(w) == [i \in 1..(Len(w) \div 2) |-> w[2 * i].turn]
Increasing(q) == \A i \in 1..(Len(q) - 1) : q[i] < q[i + 1]

C5_WindowAtMost20 ==
    \A s \in Sessions : Len(Window(s)) <= 20 /\ Len(ChatWindow(s)) <= 20

\* a turn has just been pushed onto a full window of the signaling gateway, and
\* the window was cut back to 20 entries
C5_Witness ==
    /\ last.op = "generated"
    /\ last.note = "cut"
    /\ Len(Window(last.sid)) = 20
    /\ Window(last.sid)[20].turn = last.run

PairsOnly(w) ==
    /\ Len(w) % 2 = 0
    /\ \A i \in 1..Len(w) : w[i].role = (IF i % 2 = 1 THEN "user" ELSE "assistant")
    /\ \A i \in 1..(Len(w) \div 2) : w[2 * i - 1].turn = w[2 * i].turn

\* C6: every window (and every history array a handler holds) is a sequence of
\* complete (user, assistant) pairs: even length, user first, roles alternating,
\* each assistant entry answering the user entry before it.
C6_WindowIsPairs ==
    /\ \A s \in Sessions : PairsOnly(Window(s)) /\ PairsOnly(ChatWindow(s))
    /\ \A i \in DOMAIN arrays : PairsOnly(arrays[i])
    /\ \A i \in DOMAIN chatArrays : PairsOnly(chatArrays[i])

\* a turn has just been pushed onto a full window of the chat gateway: the
\* oldest pair is gone and the window starts with a user entry
C6_Witness ==
    /\ last.op = "chat-generated"
    /\ last.note = "cut"
    /\ Len(ChatWindow(last.sid)) = 20
    /\ ChatWindow(last.sid)[1].role = "user"
    /\ ChatWindow(last.sid)[20].turn = last.run

HasEvent(o, names) == \E i \in 1..Len(o) : o[i].ev \in names

\* C7: a leave-session that directly follows a leave-session for the same id
\* changes no per-session map and repeats no teardown side effect: no peer-left
\* notification and no peer close.
C7_SecondLeaveIsSilent ==
    [][ (last.op = "leave-session" /\ last'.op = "leave-session" /\ last'.sid = last.sid)
          => (UNCHANGED sigVars /\ ~HasEvent(out', {"peer-left", "close"})) ]_vars

\* C8: right after a sweep, no registered session has gone more than 30 minutes
\* without an inbound event.
C8_SweepRemovesIdleSessions ==
    last.op = "cleanup" =>
        \A s \in OMapKeys(sessions) : now - lastEventAt[s] <= 30 * 60 * 1000

\* what the gateway holds for session s
SessionState(s) ==
    [ registry |-> IF s \in OMapKeys(sessions) THEN <<OMapGet(sessions, s)>> ELSE <<>>,
      peer     |-> IF MapHas(aiPeers, s) THEN <<aiPeers[s], aiPeers[s] \in openPeers>> ELSE <<>>,
      latch    |-> IF MapHas(processingAudio, s) THEN <<processingAudio[s]>> ELSE <<>>,
      window   |-> IF MapHas(conversationHistory, s) THEN <<Window(s)>> ELSE <<>>,
      greeting |-> s \in greetingSent,
      activity |-> IF MapHas(sessionLastActivity, s) THEN <<sessionLastActivity[s]>> ELSE <<>> ]

C10_SmallAudioIsSilent ==
    [][ /\ \A r \in runs' \ runs :
              r.bytes < 20000 => (out' = <<>> /\ sessionLastActivity'[r.sid] = now)
        /\ \A r \in runs :
              (r.bytes < 20000 /\ last'.run = r.id /\ last'.sid = r.sid) => out' = <<>> ]_vars

\* the steps of run r: the transcription returned, the feedback was synthesized
IsTranscribed(r) == r.pc = "stt" /\ last'.op = "transcribed" /\ last'.run = r.id
IsFeedback(r) == r.pc = "feedback" /\ last'.op = "feedback" /\ last'.run = r.id

\* the run with this id calls neither the response generator nor the synthesis
\* of a response
NoGeneration(id) == \A q \in runs' : q.id = id => q.pc = "feedback"

Pair(id) == << Turn("user", id), Turn("assistant", id) >>
LastN(w, n) == IF Len(w) > n THEN SubSeq(w, Len(w) - n + 1, Len(w)) ELSE w

\* the user message of chat run r has been stored
IsUserSaved(r) == r.pc = "save-user" /\ last'.op = "user-saved" /\ last'.run = r.id

\* C12: with the turns of a session taken one after another, in either gateway
\* the response generator is called with the window as the earlier turns left
\* it, and the window changes only when a generation returns: it then holds the
\* most recent 20 entries of the old window followed by the new pair.
C12_GeneratorSeesEarlierTurns ==
    [][ /\ \A r \in runs :
              (IsTranscribed(r) /\ last'.note = "usable")
                  => \E q \in runs' :
                         q.id = r.id /\ q.pc = "generate" /\ arrays'[q.hist] = Window(r.sid)
        /\ \A r \in chatRuns :
              (IsUserSaved(r) /\ last'.note = "ok")
                  => \E q \in chatRuns' :
                         q.id = r.id /\ q.pc = "generate" /\ chatArrays'[q.hist] = ChatWindow(r.sid)
        /\ \A s \in Sessions :
              /\ Window(s)' =
                    IF last'.op = "generated" /\ last'.sid = s /\ last'.note # "threw"
                    THEN LastN(Window(s) \o Pair(last'.run), 20) ELSE Window(s)
              /\ ChatWindow(s)' =
                    IF last'.op = "chat-generated" /\ last'.sid = s /\ last'.note # "threw"
                    THEN LastN(ChatWindow(s) \o Pair(last'.run), 20) ELSE ChatWindow(s) ]_vars

\* the generator of the chat gateway has been called with a full window whose
\* oldest turn is no longer the first one of the session
C12_Witness ==
    /\ last.op = "user-saved"
    /\ \E q \in chatRuns :
          /\ q.id = last.run /\ q.pc = "generate"
          /\ Len(chatArrays[q.hist]) = 20
          /\ chatArrays[q.hist][1].turn > 2
          /\ chatArrays[q.hist][20].turn < q.id

\* C13: once leave-session has run for a session, no turn its window held at
\* that moment comes back: an offer that registers the session again finds no
\* such turn in the window, and no later call of the response generator for
\* the registered session is given one.
C13_NoTurnSurvivesLeave ==
    [][ \A s \in Sessions :
          /\ (last'.op = "offer" /\ last'.sid = s /\ s \notin OMapKeys(sessions))
                => TurnsOf(Window(s)') \cap leftTurns[s] = {}
          /\ \A r \in RunsOf(s) :
                (IsTranscribed(r) /\ last'.note = "usable" /\ s \in OMapKeys(sessions))
                    => \A q \in runs' :
                           q.id = r.id => TurnsOf(arrays'[q.hist]) \cap leftTurns[s] = {} ]_vars

\* the sockets that receive what is emitted to the room of session s
Listeners(s) == {k \in Sockets : <<k, s>> \in rooms}

\* C14: every session id is bound to at most one live connection: when a second
\* socket joins, the one before it stops receiving the session's events.
C14_OneLiveConnection ==
    \A s \in Sessions : Cardinality(Listeners(s)) <= 1

\* the step just taken is run r resuming after an awaited call that threw
CallThrew(r) ==
    /\ last'.run = r.id /\ last'.sid = r.sid
    /\ \/ r.pc = "stt" /\ last'.op = "transcription-failed"
       \/ r.pc = "generate" /\ last'.op = "generated" /\ last'.note = "threw"
       \/ r.pc = "synthesize" /\ last'.op = "synthesized" /\ last'.note = "threw"
       \/ r.pc = "feedback" /\ last'.op = "feedback" /\ last'.note = "swallowed"

\* run r is over with this step
Ends(r) == \A q \in runs' : q.id # r.id

\* C15: when the transcription, the generation or the synthesis of a turn (a
\* run of audio at or above the size floor) throws, the turn is over at once
\* with exactly one error event, sent to the calling client, and the registry
\* keeps the session.
C15_ThrowEndsTurnWithOneError ==
    [][ \A r \in runs :
          (r.bytes >= 20000 /\ CallThrew(r))
              => /\ Ends(r)
                 /\ Len(out') = 1
                 /\ out'[1].ev = "error" /\ out'[1].to = ToSocket(r.client)
                 /\ sessions' = sessions ]_vars

\* C16: a run of audio at or above the size floor does not end without an
\* outbound event: a response, a feedback or an error.
C16_NoSilentTurn ==
    [][ \A r \in runs :
          (r.bytes >= 20000 /\ last'.run = r.id /\ last'.sid = r.sid /\ Ends(r))
              => HasEvent(out', {"ai-audio-response", "error"}) ]_vars

\* C17: join-chat for a session id that has a row in the store, the database
\* working, is answered with chat-joined for that id and with no error.
C17_RejoinSucceeds ==
    [][ \A r \in chatRuns :
          ( /\ r.pc = "create" /\ r.sid \in chatStore
            /\ last'.op = "session-created" /\ last'.run = r.id /\ last'.note # "threw" )
              => /\ HasEvent(out', {"chat-joined"})
                 /\ ~HasEvent(out', {"error"}) ]_vars

DocumentedFlow ==
    {<<"INITIATING", "RINGING">>, <<"RINGING", "CONNECTING">>,
     <<"CONNECTING", "IN_PROGRESS">>, <<"IN_PROGRESS", "ENDED">>,
     <<"INITIATING", "FAILED">>, <<"RINGING", "FAILED">>, <<"CONNECTING", "FAILED">>}

\* the documented flow, and ENDED from every status before IN_PROGRESS too
FlowWithEarlyEnd ==
    DocumentedFlow \cup
        {<<"INITIATING", "ENDED">>, <<"RINGING", "ENDED">>, <<"CONNECTING", "ENDED">>}

\* the status an entity method or a use case moves its call to
Target(op) ==
    CASE op = "startRinging" -> "RINGING"
      [] op = "startConnecting" -> "CONNECTING"
      [] op = "connect" -> "IN_PROGRESS"
      [] op \in {"end", "end-call"} -> "ENDED"
      [] op = "fail" -> "FAILED"

\* one step of the calls, measured against a flow: every change of status is a
\* pair of the flow (two pairs in a row for the connect use case); a new
\* entity starts the chain; an attempt the flow allows moves the call there,
\* and every other attempt throws and leaves every call as it was
FollowsFlow(flow) ==
    /\ Len(calls') >= Len(calls)
    /\ \A id \in CallEntityIds :
          LET a == calls[id].status
              b == calls'[id].status IN
          a # b => \/ <<a, b>> \in flow
                   \/ /\ last'.op = "connect-call"
                      /\ \E m \in CallStatusEnum : <<a, m>> \in flow /\ <<m, b>> \in flow
    /\ Len(calls') > Len(calls) =>
          \/ calls'[Len(calls')].status = "INITIATING"
          \/ /\ last'.op = "initiate-call"
             /\ <<"INITIATING", calls'[Len(calls')].status>> \in flow
    /\ ( /\ last'.op \in {"startRinging", "startConnecting", "connect", "end", "fail",
                          "end-call"}
         /\ last'.note # "not-found" )
          => LET id == last'.run IN
             IF <<calls[id].status, Target(last'.op)>> \in flow
             THEN /\ calls'[id].status = Target(last'.op)
                  /\ last'.note = "ok"
             ELSE /\ calls' = calls
                  /\ last'.note = "threw"
    /\ ( last'.op = "connect-call" /\ last'.note # "not-found" )
          => LET id == last'.run IN
             IF /\ <<calls[id].status, "CONNECTING">> \in flow
                /\ <<"CONNECTING", "IN_PROGRESS">> \in flow
             THEN /\ calls'[id].status = "IN_PROGRESS"
                  /\ last'.note = "ok"
             ELSE /\ calls' = calls
                  /\ last'.note = "threw"

C20_OneActiveCallPerCaller ==
    \A c \in Callers : Cardinality(FindActiveCallsByCallerNumber(c)) <= 1

\* nothing is held for a session
NoSessionState ==
    [ registry |-> <<>>, peer |-> <<>>, latch |-> <<>>, window |-> <<>>,
      greeting |-> FALSE, activity |-> <<>> ]

\* the step just taken tears session s down: a leave-session for s, the
\* disconnect of the socket s was bound to, or a sweep that found s stale
TearsDown(s) ==
    \/ last'.op = "leave-session" /\ last'.sid = s
    \/ last'.op = "disconnect" /\ last'.sid = s
    \/ last'.op = "cleanup" /\ s \in Stale(sessionLastActivity, now)

\* C21: leave-session, disconnect and the idle sweep run the same teardown:
\* after any of them the session has no registry entry, its peer is closed and
\* removed from aiPeers, and its latch, window, greeting flag and activity
\* record are gone.
C21_OneTeardown ==
    [][ \A s \in Sessions :
          (s \in OMapKeys(sessions) /\ TearsDown(s))
              => /\ SessionState(s)' = NoSessionState
                 /\ MapHas(aiPeers, s) => aiPeers[s] \notin openPeers' ]_vars

\* C22: a user-audio run whose session was torn down while it was in flight
\* (the latch entry it set is gone) leaves no processingAudio entry and no
\* conversationHistory entry behind when it finishes.
C22_NoResurrection ==
    [][ \A r \in runs :
          ( /\ last'.run = r.id /\ last'.sid = r.sid
            /\ \A q \in runs' : q.id # r.id
            /\ ~MapHas(processingAudio, r.sid) )
              => /\ ~MapHas(processingAudio', r.sid)
                 /\ ~MapHas(conversationHistory', r.sid) ]_vars

\* C24: a turn that fails leaves the window as it was: when the generation or
\* the synthesis of a user-audio turn throws, or the store rejects the
\* assistant message of a send-message turn, the turn is not in the window.
C24_FailedTurnLeavesWindow ==
    [][ /\ \A r \in runs :
              ( /\ last'.run = r.id /\ last'.op \in {"generated", "synthesized"}
                /\ last'.note = "threw" )
                  => r.id \notin TurnsOf(Window(r.sid)')
        /\ \A r \in chatRuns :
              ( /\ last'.run = r.id /\ last'.op \in {"chat-generated", "assistant-saved"}
                /\ last'.note = "threw" )
                  => r.id \notin TurnsOf(ChatWindow(r.sid)') ]_vars

\* C25: the sessions with an activity record are exactly the registered ones.
C25_ActivityRecordPerSession ==
    DOMAIN sessionLastActivity = OMapKeys(sessions)

\* C26: every join-session, offer and user-audio event (dropped ones too) and
\* every send-message event sets the activity record of its session to the
\* current time.
C26_EveryEventTouchesActivity ==
    [][ /\ last'.op \in {"join-session", "offer", "user-audio"}
            => /\ MapHas(sessionLastActivity', last'.sid)
               /\ sessionLastActivity'[last'.sid] = now
        /\ last'.op = "send-message"
            => /\ MapHas(chatLastActivity', last'.sid)
               /\ chatLastActivity'[last'.sid] = now ]_vars

\* C27: an offer for a session that holds a peer reuses it and builds no other
\* one, so there are never more peers built and not closed than sessions that
\* hold one.
C27_OnePeerPerSession ==
    [][ /\ (last'.op = "offer" /\ MapHas(aiPeers, last'.sid))
            => (aiPeers'[last'.sid] = aiPeers[last'.sid] /\ openPeers' = openPeers)
        /\ Cardinality(openPeers') <= Cardinality(DOMAIN aiPeers') ]_vars

\* C28: the greeting of a session that was torn down before the greeting was
\* due is never emitted.
C28_TeardownCancelsGreeting ==
    [][ \A g \in greetings :
          (last'.op = "greeted" /\ last'.run = g.id /\ g.id \in orphaned)
              => ~HasEvent(out', {"ai-audio-response"}) ]_vars

\* the ids of the greetings scheduled and not yet emitted
GreetingIds(gs) == {g.id : g \in gs}

\* C29: between its creation and its teardown a session has its greeting
\* scheduled at most once, and a greeting is scheduled only by the step in
\* which an offer's answer came back.
C29_GreetingScheduledOnce ==
    [][ /\ \A s \in Sessions : scheduled'[s] <= 1
        /\ GreetingIds(greetings') \ GreetingIds(greetings) # {}
              => (last'.op = "answered" /\ last'.note = "ok") ]_vars

\* a second offer of a registered session was answered and scheduled nothing
C29_Witness ==
    /\ last.op = "answered" /\ last.note = "ok"
    /\ last.sid \in OMapKeys(sessions)
    /\ last.run \notin GreetingIds(greetings)
    /\ scheduled[last.sid] = 1
    /\ last.sid \in greetingSent

\* no inbound event has named session s for more than 30 minutes
Idle(s) == MapHas(lastEventAt, s) /\ now - lastEventAt[s] > SESSION_TIMEOUT_MS

\* C23: no per-session state leaks for good: from some point on, a session id
\* that has been idle for more than 30 minutes has no entry in sessions,
\* aiPeers, processingAudio, conversationHistory, greetingSent or
\* sessionLastActivity.
C23_NoPermanentLeak ==
    \A s \in Sessions : <>[](Idle(s) => SessionState(s) = NoSessionState)

\* the registered sessions whose connection handle is socket k
BoundTo(k) == {s \in OMapKeys(sessions) : OMapGet(sessions, s).socketId = k}

\* C30: the disconnect of a socket removes exactly the sessions whose current
\* handle is that socket: all of them, and no other.
C30_DisconnectRemovesBoundSessions ==
    [][ \A k \in Sockets :
          (last'.op = "disconnect" /\ last'.note = k)
              => OMapKeys(sessions') = OMapKeys(sessions) \ BoundTo(k) ]_vars

====
